---- MODULE Spec2Model ----
(***************************************************************************)
(* Model of the history store (StorageService over one IndexedDB object    *)
(* store keyed by id) and of the generation controller (App.handleGenerate *)
(* and the handlers around it) of nano-banana-pro.                         *)
(*                                                                         *)
(* Strings that the code inspects are sequences: an id is the sequence of  *)
(* decimal digits of Date.now().toString(), a prompt or an error message   *)
(* is a sequence of one-character strings.                                 *)
(***************************************************************************)
EXTENDS Integers, Sequences, FiniteSets

VARIABLES
    store,      \* [partition -> sequence of records in key (id) order]: the object store
    save,       \* [partition -> the saveHistoryItem call in progress, or its outcome]
    lastCall,   \* the last direct delete / clear call of the client and its outcome
    client,     \* the caller of StorageService: "free", "script" or "app"
    ops,        \* number of StorageService calls issued by the client so far
    faultsLeft  \* number of durable-medium requests that may still fail

storeVars == <<store, save, lastCall, client, ops, faultsLeft>>

VARIABLES
    isLocalMode,   \* Boolean(process.env.API_KEY)
    isAuth, loading, error, isRateLimited, mode,
    config, videoConfig, resultImage, resultVideo, history, videoHistory,
    gen,           \* the handleGenerate call in progress: where it stands, what it closed over
    clock,         \* Date.now() as last read
    event,         \* what the step just taken was: a click on the generate button, a caught
                   \* rejection of the GeminiService call (with the error), a rejection
                   \* that left handleGenerate uncaught, or anything else
    dispatched     \* number of GeminiService calls made

uiVars == <<isAuth, loading, error, isRateLimited, mode, config, videoConfig,
            resultImage, resultVideo, history, videoHistory>>

appVars == <<isLocalMode, uiVars, gen, clock, event, dispatched>>

vars == <<storeVars, appVars>>

-----------------------------------------------------------------------------
(* Program constants and bounds *)

MAX_HISTORY_ITEMS == 100

\* direct-client calls explored from each initial store
MaxOps == 3
\* durable-medium requests that may fail in one run
MaxFaults == 1
\* records the scripted client puts beyond MAX_HISTORY_ITEMS
Extra == 5
\* GeminiService calls made in one run of the app
MaxRequests == 2
\* milliseconds Date.now() advances in one run of the app
MaxClock == 1
\* records of each mode left in the store by earlier sessions
MaxSeed == 2
\* the number of requests submitted in a run under fair scheduling
MaxLiveRequests == 1

Modes == {"image", "video"}

\* the partition of the durable medium holding the records of a mode
StoreOf(m) == m

-----------------------------------------------------------------------------
(* Strings *)

RECURSIVE ToString(_)
\* Number.prototype.toString() of a non-negative integer: its decimal digits
ToString(n) == IF n < 10 THEN <<n>> ELSE Append(ToString(n \div 10), n % 10)

RECURSIVE KeyLess(_, _)
\* IndexedDB key order on strings: lexicographic, a proper prefix first
KeyLess(a, b) ==
    IF b = <<>> THEN FALSE
    ELSE IF a = <<>> THEN TRUE
    ELSE IF Head(a) # Head(b) THEN Head(a) < Head(b)
    ELSE KeyLess(Tail(a), Tail(b))

-----------------------------------------------------------------------------
(* The object store: IDBObjectStore with keyPath 'id' *)

Ids(s) == {s[i].id : i \in 1..Len(s)}

HasId(s, id) == \E i \in 1..Len(s) : s[i].id = id

\* as StorePut, but a record already stored under the key is kept (IDBObjectStore.add
\* with the error ignored)
StorePutKeepsOld(s, item) ==
    IF \E i \in 1..Len(s) : s[i].id = item.id THEN s
    ELSE SelectSeq(s, LAMBDA r : KeyLess(r.id, item.id)) \o <<item>>
         \o SelectSeq(s, LAMBDA r : KeyLess(item.id, r.id))

\* IDBObjectStore.put: insert, or replace the record stored under the same key
StorePut(s, item) ==
    LET before == SelectSeq(s, LAMBDA r : KeyLess(r.id, item.id))
        after  == SelectSeq(s, LAMBDA r : KeyLess(item.id, r.id))
    IN  before \o <<item>> \o after

\* IDBObjectStore.delete: succeeds whether or not the key is present
StoreDelete(s, id) == SelectSeq(s, LAMBDA r : r.id # id)

\* as StoreClear, but the record with the greatest key is left in place
StoreClearKeepsLast(s) == IF s = <<>> THEN s ELSE <<s[Len(s)]>>

\* IDBObjectStore.clear
StoreClear(s) == <<>>

\* IDBObjectStore.getAll: every record, in key order
StoreGetAll(s) == s

\* as Insert, with the comparator's sign reversed (a.timestamp - b.timestamp)
InsertOldestFirst(sorted, x) ==
    LET k == Len(SelectSeq(sorted, LAMBDA r : r.timestamp <= x.timestamp))
    IN  SubSeq(sorted, 1, k) \o <<x>> \o SubSeq(sorted, k + 1, Len(sorted))

\* as Insert, but x is placed before the records of its own timestamp (a sort that is
\* not stable)
InsertBeforeTies(sorted, x) ==
    LET k == Len(SelectSeq(sorted, LAMBDA r : r.timestamp > x.timestamp))
    IN  SubSeq(sorted, 1, k) \o <<x>> \o SubSeq(sorted, k + 1, Len(sorted))

\* x placed into a run sorted newest first, behind the records that are not older
Insert(sorted, x) ==
    LET k == Len(SelectSeq(sorted, LAMBDA r : r.timestamp >= x.timestamp))
    IN  SubSeq(sorted, 1, k) \o <<x>> \o SubSeq(sorted, k + 1, Len(sorted))

RECURSIVE InsertAll(_, _)
\* the records of xs placed into sorted one after another, in the order of xs
InsertAll(sorted, xs) ==
    IF xs = <<>> THEN sorted
    ELSE IF Len(xs) = 1 THEN Insert(sorted, xs[1])
    ELSE LET half == Len(xs) \div 2
             first == InsertAll(sorted, SubSeq(xs, 1, half))
         \* the test always holds: it has first evaluated before it is passed on
         IN  IF Len(first) = Len(sorted) + half
             THEN InsertAll(first, SubSeq(xs, half + 1, Len(xs)))
             ELSE first

\* Array.prototype.sort((a, b) => b.timestamp - a.timestamp): stable, newest first
SortNewestFirst(all) == InsertAll(<<>>, all)

\* as Slice, but cut from the other end: the last start records are dropped
SliceFromEnd(s, start) == SubSeq(s, 1, Len(s) - start)

\* Array.prototype.slice(start)
Slice(s, start) == SubSeq(s, start + 1, Len(s))

\* as ItemsToDelete, with nothing ever picked for deletion
ItemsToDeleteNone(allItems) == <<>>

\* as ItemsToDelete, with the limit test and the slice off by one
ItemsToDeleteOffByOne(allItems) ==
    IF Len(allItems) <= MAX_HISTORY_ITEMS + 1 THEN <<>>
    ELSE LET itemsToDelete == Slice(SortNewestFirst(allItems), MAX_HISTORY_ITEMS + 1)
         IN  [k \in 1..Len(itemsToDelete) |-> itemsToDelete[k].id]

\* enforceHistoryLimit: the ids to delete, in deletion order
ItemsToDelete(allItems) ==
    IF Len(allItems) <= MAX_HISTORY_ITEMS THEN <<>>
    ELSE LET sorted == SortNewestFirst(allItems)
             itemsToDelete == Slice(sorted, MAX_HISTORY_ITEMS)
         IN  [k \in 1..Len(itemsToDelete) |-> itemsToDelete[k].id]

-----------------------------------------------------------------------------
(* StorageService.saveHistoryItem, one step per durable-medium request *)

NoItem == [id |-> <<>>, imageUrl |-> 0, prompt |-> <<>>, config |-> <<>>, timestamp |-> 0]

\* pc: where the call stands; allItems, itemsToDelete, next: the locals of
\* enforceHistoryLimit and the position of its loop; before: the object store as the
\* put transaction found it
IdleSave ==
    [pc |-> "idle", item |-> NoItem, before |-> <<>>, allItems |-> <<>>,
     itemsToDelete |-> <<>>, next |-> 1, status |-> "none"]

\* a request to the medium either succeeds or fails (request.onerror / open failure)
MediumOutcomes == IF faultsLeft > 0 THEN {TRUE, FALSE} ELSE {TRUE}

Fault(ok) == faultsLeft' = IF ok THEN faultsLeft ELSE faultsLeft - 1

\* request.onsuccess = () => resolve(); request.onerror = () => reject(request.error)
RequestResult(ok) == IF ok THEN "ok" ELSE "error"

\* the call itself: nothing has touched the medium yet
saveHistoryItem(p, item) ==
    save' = [save EXCEPT ![p] = [IdleSave EXCEPT !.pc = "put", !.item = item]]

\* getDB and the readwrite transaction of store.put(item)
SavePut(p) ==
    /\ save[p].pc = "put"
    /\ \E ok \in MediumOutcomes :
        /\ Fault(ok)
        /\ IF ok
           THEN /\ store' = [store EXCEPT ![p] = StorePut(store[p], save[p].item)]
                /\ save' = [save EXCEPT ![p].pc = "enforce", ![p].before = store[p]]
           ELSE /\ save' = [save EXCEPT ![p].pc = "returned", ![p].status = RequestResult(ok)]
                /\ UNCHANGED store

\* enforceHistoryLimit up to the loop: getAllHistory, the length test, sort and slice
SaveEnforce(p) ==
    /\ save[p].pc = "enforce"
    /\ \E ok \in MediumOutcomes :
        /\ Fault(ok)
        /\ IF ok
           THEN LET allItems == StoreGetAll(store[p])
                    itemsToDelete == ItemsToDelete(allItems)
                    done == itemsToDelete = <<>>
                IN  save' = [save EXCEPT ![p].allItems = allItems,
                                         ![p].itemsToDelete = itemsToDelete,
                                         ![p].next = 1,
                                         ![p].pc = IF done THEN "returned" ELSE "delete",
                                         ![p].status = IF done THEN "ok" ELSE "none"]
           ELSE save' = [save EXCEPT ![p].pc = "returned", ![p].status = RequestResult(ok)]
    /\ UNCHANGED store

\* one pass of the loop: await this.deleteHistoryItem(item.id)
SaveDelete(p) ==
    /\ save[p].pc = "delete"
    /\ \E ok \in MediumOutcomes :
        /\ Fault(ok)
        /\ IF ok
           THEN LET done == save[p].next = Len(save[p].itemsToDelete)
                IN  /\ store' = [store EXCEPT
                            ![p] = StoreDelete(store[p], save[p].itemsToDelete[save[p].next])]
                    /\ save' = [save EXCEPT ![p].next = save[p].next + 1,
                                            ![p].pc = IF done THEN "returned" ELSE "delete",
                                            ![p].status = IF done THEN "ok" ELSE "none"]
           ELSE /\ save' = [save EXCEPT ![p].pc = "returned", ![p].status = RequestResult(ok)]
                /\ UNCHANGED store

\* StorageService.deleteHistoryItem: getDB and the transaction of store.delete(id)
deleteHistoryItem(p, id, ok) ==
    /\ Fault(ok)
    /\ store' = [store EXCEPT ![p] = IF ok THEN StoreDelete(store[p], id) ELSE store[p]]

\* as DeleteResult, but a key that is not stored is reported as an error
DeleteResultNotFound(s, id, ok) ==
    IF ok /\ \E i \in 1..Len(s) : s[i].id = id THEN "ok" ELSE "error"

\* what deleteHistoryItem(id) settles with on the object store s
DeleteResult(s, id, ok) == RequestResult(ok)

\* StorageService.clearAllHistory: getDB and the transaction of store.clear()
clearAllHistory(p, ok) ==
    /\ Fault(ok)
    /\ store' = [store EXCEPT ![p] = IF ok THEN StoreClear(store[p]) ELSE store[p]]

-----------------------------------------------------------------------------
(* Clients of StorageService that call it directly, one call after another *)

Cfg(ar) == [aspectRatio |-> ar, imageSize |-> "1K", prompt |-> <<"a">>, negativePrompt |-> <<>>]

Item(id, ts, url, ar) ==
    [id |-> ToString(id), imageUrl |-> url, prompt |-> <<"a">>, config |-> Cfg(ar), timestamp |-> ts]

\* a store left by earlier sessions: n records created at times 101 .. 100 + n
SeedStore(n) == [i \in 1..n |-> Item(100 + i, 100 + i, 0, "1:1")]

\* the records the free client may put
PutItems ==
    { Item(150, 150, 1, "16:9"),   \* a stored id, other fields
      Item(150, 150, 0, "1:1"),    \* a stored record again
      Item(301, 301, 1, "1:1"),    \* a new id, newest
      Item(302, 302, 1, "1:1"),
      Item(303, 101, 1, "1:1"),    \* a new id, as old as the oldest stored record
      Item(99, 99, 1, "1:1") }     \* a new id, older than every stored record

\* the ids the free client may delete: stored from the start, put later, never stored
DeleteIds == {ToString(150), ToString(301), ToString(999)}

\* missing: the id was not stored; medium: the medium accepted the request;
\* result: what the call settled with; unchanged: the call left the store as it was
NoCall ==
    [op |-> "none", id |-> <<>>, missing |-> FALSE, medium |-> TRUE, result |-> "none",
     unchanged |-> TRUE]

\* a put call: its outcome is in save
PutCall == [NoCall EXCEPT !.op = "put"]

CallDone(p) == save[p].pc \in {"idle", "returned"}

ClientPut ==
    /\ client = "free"
    /\ ops < MaxOps
    /\ CallDone("image")
    /\ \E item \in PutItems : saveHistoryItem("image", item)
    /\ lastCall' = PutCall
    /\ ops' = ops + 1
    /\ UNCHANGED <<store, client, faultsLeft, appVars>>

ClientDelete ==
    /\ client = "free"
    /\ ops < MaxOps
    /\ CallDone("image")
    /\ \E id \in DeleteIds, ok \in MediumOutcomes :
        /\ deleteHistoryItem("image", id, ok)
        /\ lastCall' = [op |-> "delete", id |-> id, missing |-> ~HasId(store["image"], id),
                        medium |-> ok, result |-> DeleteResult(store["image"], id, ok),
                        unchanged |-> (store'["image"] = store["image"])]
    /\ ops' = ops + 1
    /\ UNCHANGED <<save, client, appVars>>

ClientClear ==
    /\ client = "free"
    /\ ops < MaxOps
    /\ CallDone("image")
    /\ \E ok \in MediumOutcomes :
        /\ clearAllHistory("image", ok)
        /\ lastCall' = [op |-> "clear", id |-> <<>>, missing |-> FALSE,
                        medium |-> ok, result |-> RequestResult(ok),
                        unchanged |-> (store'["image"] = store["image"])]
    /\ ops' = ops + 1
    /\ UNCHANGED <<save, client, appVars>>

\* the scripted client puts records with timestamps 1, 2, 3, ... one after another
ScriptPut ==
    /\ client = "script"
    /\ ops < MAX_HISTORY_ITEMS + Extra
    /\ CallDone("image")
    /\ saveHistoryItem("image", Item(ops + 1, ops + 1, 1, "1:1"))
    /\ lastCall' = PutCall
    /\ ops' = ops + 1
    /\ UNCHANGED <<store, client, faultsLeft, appVars>>

SaveStep ==
    /\ \E p \in Modes : SavePut(p) \/ SaveEnforce(p) \/ SaveDelete(p)
    /\ UNCHANGED <<lastCall, client, ops, appVars>>

-----------------------------------------------------------------------------
(* Texts *)

\* the pattern of the first rule of the image catch block
ENTITY_NOT_FOUND ==
    <<"R", "e", "q", "u", "e", "s", "t", "e", "d", " ", "e", "n", "t", "i", "t", "y", " ",
      "w", "a", "s", " ", "n", "o", "t", " ", "f", "o", "u", "n", "d">>

\* the patterns of the rate-limit rule
CODE_429 ==
    <<"4", "2", "9">>

RESOURCE_EXHAUSTED ==
    <<"R", "E", "S", "O", "U", "R", "C", "E", "_", "E", "X", "H", "A", "U", "S", "T", "E",
      "D">>

QUOTA ==
    <<"q", "u", "o", "t", "a">>

\* the texts the handlers pass to setError
SessionExpiredText ==
    <<"Y", "o", "u", "r", " ", "A", "P", "I", " ", "k", "e", "y", " ", "s", "e", "s", "s",
      "i", "o", "n", " ", "h", "a", "s", " ", "e", "x", "p", "i", "r", "e", "d", ".", " ",
      "P", "l", "e", "a", "s", "e", " ", "r", "e", "-", "s", "e", "l", "e", "c", "t", " ",
      "y", "o", "u", "r", " ", "p", "r", "o", "j", "e", "c", "t", ".">>

DefaultImageError ==
    <<"A", "n", " ", "u", "n", "e", "x", "p", "e", "c", "t", "e", "d", " ", "e", "r", "r",
      "o", "r", " ", "o", "c", "c", "u", "r", "r", "e", "d", " ", "d", "u", "r", "i", "n",
      "g", " ", "g", "e", "n", "e", "r", "a", "t", "i", "o", "n", ".">>

DefaultVideoError ==
    <<"A", "n", " ", "u", "n", "e", "x", "p", "e", "c", "t", "e", "d", " ", "e", "r", "r",
      "o", "r", " ", "o", "c", "c", "u", "r", "r", "e", "d", " ", "d", "u", "r", "i", "n",
      "g", " ", "v", "i", "d", "e", "o", " ", "g", "e", "n", "e", "r", "a", "t", "i", "o",
      "n", ".">>

AuthDialogText ==
    <<"F", "a", "i", "l", "e", "d", " ", "t", "o", " ", "o", "p", "e", "n", " ", "A", "P",
      "I", " ", "k", "e", "y", " ", "s", "e", "l", "e", "c", "t", "i", "o", "n", " ", "d",
      "i", "a", "l", "o", "g", ".">>

\* messages a rejected remote call may carry
MsgEntity ==
    <<"R", "e", "q", "u", "e", "s", "t", "e", "d", " ", "e", "n", "t", "i", "t", "y", " ",
      "w", "a", "s", " ", "n", "o", "t", " ", "f", "o", "u", "n", "d", ".">>

Msg429 ==
    <<"E", "r", "r", "o", "r", " ", "4", "2", "9", ":", " ", "T", "o", "o", " ", "M", "a",
      "n", "y", " ", "R", "e", "q", "u", "e", "s", "t", "s">>

MsgExhausted ==
    <<"R", "E", "S", "O", "U", "R", "C", "E", "_", "E", "X", "H", "A", "U", "S", "T", "E",
      "D">>

MsgQuota ==
    <<"Y", "o", "u", " ", "e", "x", "c", "e", "e", "d", "e", "d", " ", "y", "o", "u", "r",
      " ", "c", "u", "r", "r", "e", "n", "t", " ", "q", "u", "o", "t", "a">>

MsgEntityQuota ==
    <<"R", "e", "q", "u", "e", "s", "t", "e", "d", " ", "e", "n", "t", "i", "t", "y", " ",
      "w", "a", "s", " ", "n", "o", "t", " ", "f", "o", "u", "n", "d", " ", "(", "q", "u",
      "o", "t", "a", " ", "p", "r", "o", "j", "e", "c", "t", ")">>

MsgNetwork ==
    <<"F", "a", "i", "l", "e", "d", " ", "t", "o", " ", "f", "e", "t", "c", "h">>

\* messages of the DOMException a failed durable-medium request carries
MsgStorageQuota ==
    <<"T", "h", "e", " ", "q", "u", "o", "t", "a", " ", "h", "a", "s", " ", "b", "e", "e",
      "n", " ", "e", "x", "c", "e", "e", "d", "e", "d", ".">>

MsgStorageAborted ==
    <<"T", "h", "e", " ", "t", "r", "a", "n", "s", "a", "c", "t", "i", "o", "n", " ", "w",
      "a", "s", " ", "a", "b", "o", "r", "t", "e", "d", ".">>

-----------------------------------------------------------------------------
(* Values that may be absent (null, undefined): <<>> or <<value>> *)

Null == <<>>

Some(x) == <<x>>

\* String.prototype.includes
Includes(s, pat) ==
    \E i \in 0..(Len(s) - Len(pat)) : SubSeq(s, i + 1, i + Len(pat)) = pat

IsSpace(c) == c \in {" ", "\t", "\n"}

RECURSIVE TrimStart(_)
TrimStart(s) == IF s # <<>> /\ IsSpace(Head(s)) THEN TrimStart(Tail(s)) ELSE s

RECURSIVE TrimEnd(_)
TrimEnd(s) ==
    IF s # <<>> /\ IsSpace(s[Len(s)]) THEN TrimEnd(SubSeq(s, 1, Len(s) - 1)) ELSE s

\* String.prototype.trim
Trim(s) == TrimEnd(TrimStart(s))

\* as PromptIsBlank, without the trim
PromptIsEmpty(prompt) == prompt = <<>>

\* !config.prompt.trim()
PromptIsBlank(prompt) == Trim(prompt) = <<>>

-----------------------------------------------------------------------------
(* Classification of a caught error, as the catch blocks of handleGenerate do it *)

\* err.message?.includes(pat)
MessageIncludes(err, pat) == err.message # Null /\ Includes(err.message[1], pat)

\* err.message || fallback
MessageOr(err, fallback) ==
    IF err.message = Null \/ err.message[1] = <<>> THEN fallback ELSE err.message[1]

IsEntityNotFound(err) == MessageIncludes(err, ENTITY_NOT_FOUND)

\* as IsRateLimit, without the "quota" pattern
IsRateLimitWithoutQuota(err) ==
    \/ MessageIncludes(err, CODE_429)
    \/ MessageIncludes(err, RESOURCE_EXHAUSTED)

IsRateLimit(err) ==
    \/ MessageIncludes(err, CODE_429)
    \/ MessageIncludes(err, RESOURCE_EXHAUSTED)
    \/ MessageIncludes(err, QUOTA)

\* the catch block of the image branch
ImageKind(err) ==
    IF IsEntityNotFound(err) THEN "AuthExpired"
    ELSE IF IsRateLimit(err) THEN "RateLimited"
    ELSE "Generic"

\* the catch block of the video branch
VideoKind(err) ==
    IF IsRateLimit(err) THEN "RateLimited" ELSE "Generic"

Kind(m, err) == IF m = "image" THEN ImageKind(err) ELSE VideoKind(err)

DefaultError(m) == IF m = "image" THEN DefaultImageError ELSE DefaultVideoError

-----------------------------------------------------------------------------
(* The App component *)

Prompts == {<<>>, <<" ">>, <<"a">>}

Err(message) == [message |-> message]

\* what GeminiService.generateImage / generateVideo may reject with
RemoteErrors ==
    {Err(Null), Err(Some(<<>>))} \cup
    {Err(Some(m)) : m \in {MsgEntity, Msg429, MsgExhausted, MsgQuota, MsgEntityQuota, MsgNetwork}}

\* what a failed request to the durable medium rejects with (request.error)
StorageErrors == {Err(Some(MsgStorageQuota)), Err(Some(MsgStorageAborted))}

ImageConfig(prompt) ==
    [aspectRatio |-> "1:1", imageSize |-> "1K", prompt |-> prompt, negativePrompt |-> <<>>]

VideoConfig(prompt) ==
    [aspectRatio |-> "16:9", resolution |-> "1080p", generationSpeed |-> "fast",
     prompt |-> prompt, negativePrompt |-> <<>>]

IdleGen == [pc |-> "idle", mode |-> "image", config |-> ImageConfig(<<>>)]

NoEvent == [type |-> "other", mode |-> "image", err |-> Err(Null)]

ClickEvent == [NoEvent EXCEPT !.type = "click"]

UnhandledEvent == [NoEvent EXCEPT !.type = "unhandled"]

RejectEvent(m, err) == [type |-> "rejected", mode |-> m, err |-> err]

Draft(m) == IF m = "image" THEN config ELSE videoConfig

Result(m) == IF m = "image" THEN resultImage ELSE resultVideo

History(m) == IF m = "image" THEN history ELSE videoHistory

\* the url of a record of mode m
Artifact(m, r) == IF m = "image" THEN r.imageUrl ELSE r.videoUrl

\* as GenerateDisabled, without the loading test
GenerateDisabledWhenBlank == PromptIsBlank(Draft(mode).prompt)

\* disabled={loading || (mode === 'image' ? !config.prompt.trim() : !videoConfig.prompt.trim())}
GenerateDisabled == loading \/ PromptIsBlank(Draft(mode).prompt)

\* a string or null used as a condition: null and "" are falsy
Truthy(text) == text # Null /\ text[1] # <<>>

\* the panels of the central display; the component returns the authorization screen
\* instead of the main screen while !isAuth
ShowsLoading == isAuth /\ loading

\* as ShowsError, without the !isRateLimited test
ShowsErrorOverRateLimit == isAuth /\ Truthy(error) /\ ~loading

ShowsError == isAuth /\ Truthy(error) /\ ~loading /\ ~isRateLimited

ShowsRateLimited == isAuth /\ isRateLimited /\ ~loading

ShowsIdle == isAuth /\ ~loading /\ ~Truthy(error) /\ ~isRateLimited

\* useEffect: checkAuth() decides isAuth
CheckAuth == IF isLocalMode THEN {TRUE} ELSE BOOLEAN

\* the state of the component once its startup effect has run
AppConstructed ==
    /\ isLocalMode \in BOOLEAN
    /\ isAuth \in CheckAuth
    /\ loading = FALSE
    /\ error = Null
    /\ isRateLimited = FALSE
    /\ mode = "image"
    /\ config = ImageConfig(<<>>)
    /\ videoConfig = VideoConfig(<<>>)
    /\ resultImage = Null
    /\ resultVideo = Null
    /\ history = <<>>
    /\ videoHistory = <<>>
    /\ gen = IdleGen
    /\ clock = 0
    /\ event = NoEvent
    /\ dispatched = 0

InitApp ==
    /\ client = "app"
    /\ store = [p \in Modes |-> <<>>]
    /\ save = [p \in Modes |-> IdleSave]
    /\ lastCall = NoCall
    /\ ops = 0
    /\ faultsLeft = MaxFaults
    /\ AppConstructed

\* handleAuth, the button of the authorization screen
HandleAuth ==
    /\ ~isAuth
    /\ IF isLocalMode
       THEN isAuth' = TRUE /\ UNCHANGED error
       ELSE \E opened \in BOOLEAN :
                IF opened THEN isAuth' = TRUE /\ UNCHANGED error
                ELSE error' = Some(AuthDialogText) /\ UNCHANGED isAuth
    /\ event' = NoEvent
    /\ UNCHANGED <<storeVars, isLocalMode, loading, isRateLimited, mode, config, videoConfig,
                   resultImage, resultVideo, history, videoHistory, gen, clock, dispatched>>

\* whether the branch of mode m resets its result on submit: setResultVideo(null) in
\* the video branch, nothing in the image branch
ClearsResultOnSubmit(m) == m = "video"

\* as handleGenerate, with the GeminiService call made twice
handleGenerateTwice ==
    IF PromptIsBlank(Draft(mode).prompt)
    THEN UNCHANGED <<loading, error, resultVideo, gen, dispatched>>
    ELSE /\ loading' = TRUE
         /\ error' = Null
         /\ resultVideo' = IF mode = "video" /\ ClearsResultOnSubmit(mode) THEN Null
                          ELSE resultVideo
         /\ gen' = [pc |-> "remote", mode |-> mode, config |-> Draft(mode)]
         /\ dispatched' = dispatched + 2

\* handleGenerate up to the await of the GeminiService call
handleGenerate ==
    IF PromptIsBlank(Draft(mode).prompt)
    THEN UNCHANGED <<loading, error, resultVideo, gen, dispatched>>
    ELSE /\ loading' = TRUE
         /\ error' = Null
         /\ resultVideo' = IF mode = "video" /\ ClearsResultOnSubmit(mode) THEN Null
                          ELSE resultVideo
         /\ gen' = [pc |-> "remote", mode |-> mode, config |-> Draft(mode)]
         /\ dispatched' = dispatched + 1

\* a click on the generate button
ClickGenerate ==
    /\ isAuth
    /\ dispatched < MaxRequests
    /\ event' = ClickEvent
    /\ IF GenerateDisabled
       THEN UNCHANGED <<loading, error, resultVideo, gen, dispatched>>
       ELSE handleGenerate
    /\ UNCHANGED <<storeVars, isLocalMode, isAuth, isRateLimited, mode, config, videoConfig,
                   resultImage, history, videoHistory, clock>>

\* as Finally, without setLoading(false)
FinallyKeepsLoading ==
    /\ UNCHANGED loading
    /\ gen' = IdleGen

\* finally { clearInterval(interval); setLoading(false); }
Finally ==
    /\ loading' = FALSE
    /\ gen' = IdleGen

\* the catch block of handleGenerate, up to its end or to its await of
\* window.aistudio.openSelectKey() (pc "reauth": the call is made and pending)
Catch(m, err) ==
    LET kind == Kind(m, err)
    IN  /\ error' = IF kind = "AuthExpired" THEN Some(SessionExpiredText)
                    ELSE IF kind = "Generic" THEN Some(MessageOr(err, DefaultError(m)))
                    ELSE error
        /\ isRateLimited' = IF kind = "RateLimited" THEN TRUE ELSE isRateLimited
        /\ isAuth' = IF kind = "AuthExpired" THEN FALSE ELSE isAuth
        /\ IF kind = "AuthExpired" /\ ~isLocalMode
           THEN /\ gen' = [gen EXCEPT !.pc = "reauth"]
                /\ UNCHANGED loading
           ELSE Finally

\* as NewHistoryItem, but with the draft as it is when the call resolves
NewHistoryItemFromDraft(m, url, cfg, now) ==
    IF m = "image"
    THEN [id |-> ToString(now), imageUrl |-> url, prompt |-> config.prompt, config |-> config,
          timestamp |-> now]
    ELSE [id |-> ToString(now), videoUrl |-> url, prompt |-> videoConfig.prompt,
          config |-> videoConfig, timestamp |-> now]

\* the history record of a generation that resolved with url
NewHistoryItem(m, url, cfg, now) ==
    IF m = "image"
    THEN [id |-> ToString(now), imageUrl |-> url, prompt |-> cfg.prompt, config |-> cfg,
          timestamp |-> now]
    ELSE [id |-> ToString(now), videoUrl |-> url, prompt |-> cfg.prompt, config |-> cfg,
          timestamp |-> now]

\* the GeminiService call resolves with the artifact of this call: setResult, the new
\* record (Date.now() has not gone back since it was last read), the call of
\* saveHistoryItem
RemoteResolve ==
    /\ gen.pc = "remote"
    /\ \E now \in clock..MaxClock :
        LET url == dispatched
        IN  /\ resultImage' = IF gen.mode = "image" THEN Some(url) ELSE resultImage
            /\ resultVideo' = IF gen.mode = "video" THEN Some(url) ELSE resultVideo
            /\ saveHistoryItem(StoreOf(gen.mode), NewHistoryItem(gen.mode, url, gen.config, now))
            /\ clock' = now
    /\ gen' = [gen EXCEPT !.pc = "saving"]
    /\ event' = NoEvent
    /\ UNCHANGED <<store, lastCall, client, ops, faultsLeft, isLocalMode, isAuth, loading,
                   error, isRateLimited, mode, config, videoConfig, history, videoHistory,
                   dispatched>>

\* the GeminiService call rejects
RemoteReject ==
    /\ gen.pc = "remote"
    /\ \E err \in RemoteErrors :
        /\ Catch(gen.mode, err)
        /\ event' = RejectEvent(gen.mode, err)
    /\ UNCHANGED <<storeVars, isLocalMode, mode, config, videoConfig, resultImage,
                   resultVideo, history, videoHistory, clock, dispatched>>

\* saveHistoryItem has settled: setHistory(prev => [item, ...prev]), or the catch block
SaveSettled ==
    /\ gen.pc = "saving"
    /\ save[StoreOf(gen.mode)].pc = "returned"
    /\ IF save[StoreOf(gen.mode)].status = "ok"
       THEN /\ history' = IF gen.mode = "image"
                          THEN <<save[StoreOf("image")].item>> \o history ELSE history
            /\ videoHistory' = IF gen.mode = "video"
                               THEN <<save[StoreOf("video")].item>> \o videoHistory
                               ELSE videoHistory
            /\ Finally
            /\ UNCHANGED <<error, isRateLimited, isAuth>>
       ELSE /\ \E err \in StorageErrors : Catch(gen.mode, err)
            /\ UNCHANGED <<history, videoHistory>>
    /\ save' = [save EXCEPT ![StoreOf(gen.mode)].pc = "idle"]
    /\ event' = NoEvent
    /\ UNCHANGED <<store, lastCall, client, ops, faultsLeft, isLocalMode, mode, config,
                   videoConfig, resultImage, resultVideo, clock, dispatched>>

\* await window.aistudio?.openSelectKey() in the catch block settles
ReauthSettled ==
    /\ gen.pc = "reauth"
    /\ \E opened \in BOOLEAN :
        /\ isAuth' = IF opened THEN TRUE ELSE isAuth
        /\ event' = IF opened THEN NoEvent ELSE UnhandledEvent
    /\ Finally
    /\ UNCHANGED <<storeVars, isLocalMode, error, isRateLimited, mode, config, videoConfig,
                   resultImage, resultVideo, history, videoHistory, clock, dispatched>>

\* the button of the error notice: setError(null)
DismissError ==
    /\ isAuth /\ error # Null /\ ~loading /\ ~isRateLimited
    /\ error' = Null
    /\ event' = NoEvent
    /\ UNCHANGED <<storeVars, isLocalMode, isAuth, loading, isRateLimited, mode, config,
                   videoConfig, resultImage, resultVideo, history, videoHistory, gen, clock,
                   dispatched>>

\* the button of the rate-limit notice: setIsRateLimited(false)
DismissRateLimit ==
    /\ isAuth /\ isRateLimited /\ ~loading
    /\ isRateLimited' = FALSE
    /\ event' = NoEvent
    /\ UNCHANGED <<storeVars, isLocalMode, isAuth, loading, error, mode, config, videoConfig,
                   resultImage, resultVideo, history, videoHistory, gen, clock, dispatched>>

\* the mode switcher: setMode
SetMode ==
    /\ isAuth
    /\ \E m \in Modes : m # mode /\ mode' = m
    /\ event' = NoEvent
    /\ UNCHANGED <<storeVars, isLocalMode, isAuth, loading, error, isRateLimited, config,
                   videoConfig, resultImage, resultVideo, history, videoHistory, gen, clock,
                   dispatched>>

\* the prompt textarea: setConfig / setVideoConfig({ ...config, prompt })
SetPrompt ==
    /\ isAuth
    /\ \E prompt \in Prompts :
        /\ prompt # Draft(mode).prompt
        /\ config' = IF mode = "image" THEN [config EXCEPT !.prompt = prompt] ELSE config
        /\ videoConfig' = IF mode = "video" THEN [videoConfig EXCEPT !.prompt = prompt]
                          ELSE videoConfig
    /\ event' = NoEvent
    /\ UNCHANGED <<storeVars, isLocalMode, isAuth, loading, error, isRateLimited, mode,
                   resultImage, resultVideo, history, videoHistory, gen, clock, dispatched>>

\* a step of the saveHistoryItem call the app is waiting for
AppSaveStep ==
    /\ \E p \in Modes : SavePut(p) \/ SaveEnforce(p) \/ SaveDelete(p)
    /\ event' = NoEvent
    /\ UNCHANGED <<lastCall, client, ops, isLocalMode, uiVars, gen, clock, dispatched>>

Next ==
    \/ HandleAuth \/ ClickGenerate \/ RemoteResolve \/ RemoteReject
    \/ AppSaveStep \/ SaveSettled \/ ReauthSettled \/ DismissError \/ DismissRateLimit
    \/ SetMode \/ SetPrompt

Init == InitApp

Spec == Init /\ [][Next]_vars

(* The App component under fair scheduling: the pending remote call settles, the
   event loop runs the pending steps of the store call and the continuations of
   handleGenerate *)

NextLive ==
    \/ HandleAuth
    \/ (dispatched < MaxLiveRequests /\ ClickGenerate)
    \/ RemoteResolve \/ RemoteReject
    \/ AppSaveStep \/ SaveSettled \/ ReauthSettled \/ DismissError \/ DismissRateLimit
    \/ SetMode \/ SetPrompt

SpecLive ==
    /\ Init /\ [][NextLive]_vars
    /\ WF_vars(RemoteResolve \/ RemoteReject)
    /\ WF_vars(AppSaveStep)
    /\ WF_vars(SaveSettled)
    /\ WF_vars(ReauthSettled)

-----------------------------------------------------------------------------
(* The App component with its history panel *)

\* StorageService.getAllHistory: getDB and the readonly transaction of store.getAll()
getAllHistory(p) == StoreGetAll(store[p])

\* changed: the step changed the records of the store
HistoryEvent(type, m, changed) ==
    [type |-> type, mode |-> m, err |-> Err(Null), changed |-> changed]

\* prev.filter(item => item.id !== id)
FilterOut(h, id) == SelectSeq(h, LAMBDA item : item.id # id)

\* deleteHistoryItem / deleteVideoHistoryItem of the App, from the delete button of a
\* record shown in the panel: from the transaction of store.delete(id) to setHistory,
\* or to the catch block that logs the failure
AppDeleteHistoryItem ==
    /\ isAuth
    /\ \E m \in Modes, ok \in MediumOutcomes :
        \E i \in 1..Len(History(m)) :
            LET id == History(m)[i].id
            IN  /\ deleteHistoryItem(StoreOf(m), id, ok)
                /\ history' = IF ok /\ m = "image" THEN FilterOut(history, id) ELSE history
                /\ videoHistory' = IF ok /\ m = "video" THEN FilterOut(videoHistory, id)
                                   ELSE videoHistory
                /\ event' = HistoryEvent(IF ok THEN "deleted" ELSE "deleteFailed", m,
                                         store'[StoreOf(m)] # store[StoreOf(m)])
    /\ UNCHANGED <<save, lastCall, client, ops, isLocalMode, isAuth, loading, error, isRateLimited, mode,
                   config, videoConfig, resultImage, resultVideo, gen, clock, dispatched>>

\* clearAllHistory / clearAllVideoHistory of the App, confirmed in window.confirm: from
\* the transaction of store.clear() to setHistory([]), or to the catch block
AppClearAllHistory ==
    /\ isAuth
    /\ \E m \in Modes, ok \in MediumOutcomes :
        /\ clearAllHistory(StoreOf(m), ok)
        /\ history' = IF ok /\ m = "image" THEN <<>> ELSE history
        /\ videoHistory' = IF ok /\ m = "video" THEN <<>> ELSE videoHistory
        /\ event' = HistoryEvent(IF ok THEN "cleared" ELSE "clearFailed", m,
                                 store'[StoreOf(m)] # store[StoreOf(m)])
    /\ UNCHANGED <<save, lastCall, client, ops, isLocalMode, isAuth, loading, error, isRateLimited, mode,
                   config, videoConfig, resultImage, resultVideo, gen, clock, dispatched>>

\* selectHistoryItem / selectVideoHistoryItem: a click on a record shown in the panel
selectHistoryItem ==
    /\ isAuth
    /\ \E m \in Modes :
        \E i \in 1..Len(History(m)) :
            LET item == History(m)[i]
            IN  /\ resultImage' = IF m = "image" THEN Some(item.imageUrl) ELSE resultImage
                /\ resultVideo' = IF m = "video" THEN Some(item.videoUrl) ELSE resultVideo
                /\ config' = IF m = "image" THEN item.config ELSE config
                /\ videoConfig' = IF m = "video" THEN item.config ELSE videoConfig
                /\ mode' = m
                /\ event' = HistoryEvent("selected", m, FALSE)
    /\ UNCHANGED <<storeVars, isLocalMode, isAuth, loading, error, isRateLimited, history,
                   videoHistory, gen, clock, dispatched>>

\* the records of mode m left in the store by earlier sessions: n records, created at
\* times 1 .. n
SeedHistory(m, n) ==
    [k \in 1..n |->
        NewHistoryItem(m, k, IF m = "image" THEN ImageConfig(<<"a">>) ELSE VideoConfig(<<"a">>), k)]

\* loadHistory of the startup effect: getAllHistory and setHistory, then
\* getAllVideoHistory and setVideoHistory; a failure of either read is logged and ends
\* the load (ops: the reads that have settled, 2 when the load is over)
loadHistory ==
    /\ client = "history"
    /\ ops < 2
    /\ \E ok \in MediumOutcomes :
        /\ Fault(ok)
        /\ history' = IF ok /\ ops = 0 THEN getAllHistory(StoreOf("image")) ELSE history
        /\ videoHistory' = IF ok /\ ops = 1 THEN getAllHistory(StoreOf("video"))
                           ELSE videoHistory
        /\ ops' = IF ok THEN ops + 1 ELSE 2
        /\ event' = HistoryEvent(IF ok THEN "loaded" ELSE "loadFailed",
                                 IF ops = 0 THEN "image" ELSE "video", FALSE)
    /\ UNCHANGED <<store, save, lastCall, client, isLocalMode, isAuth, loading, error,
                   isRateLimited, mode, config, videoConfig, resultImage, resultVideo, gen,
                   clock, dispatched>>

\* a local-mode session that starts on stores left by earlier sessions
InitHistory ==
    /\ client = "history"
    /\ \E ni \in 0..MaxSeed, nv \in 0..MaxSeed :
        store = [p \in Modes |-> IF p = StoreOf("image") THEN SeedHistory("image", ni)
                                 ELSE SeedHistory("video", nv)]
    /\ save = [p \in Modes |-> IdleSave]
    /\ lastCall = NoCall
    /\ ops = 0
    /\ faultsLeft = MaxFaults
    /\ AppConstructed
    /\ isLocalMode

NextHistory ==
    \/ loadHistory \/ AppDeleteHistoryItem \/ AppClearAllHistory \/ selectHistoryItem
    \/ SetMode \/ SetPrompt

SpecHistory == InitHistory /\ [][NextHistory]_vars

-----------------------------------------------------------------------------
(* StorageService under its direct clients *)

InitStore ==
    /\ save = [p \in Modes |-> IdleSave]
    /\ lastCall = NoCall
    /\ ops = 0
    /\ AppConstructed
    /\ isLocalMode
    /\ \/ /\ client = "free"
          /\ \E n \in {MAX_HISTORY_ITEMS - 1, MAX_HISTORY_ITEMS} :
                store = [p \in Modes |-> IF p = "image" THEN SeedStore(n) ELSE <<>>]
          /\ faultsLeft = MaxFaults
       \/ /\ client = "script"
          /\ store = [p \in Modes |-> <<>>]
          /\ faultsLeft = 0

NextStore == ClientPut \/ ClientDelete \/ ClientClear \/ ScriptPut \/ SaveStep

SpecStore == InitStore /\ [][NextStore]_vars

-----------------------------------------------------------------------------
(* Properties of the store *)

Range(s) == {s[i] : i \in 1..Len(s)}

Timestamps(s) == {s[i].timestamp : i \in 1..Len(s)}

\* the last call was a put and it has returned
Returned(p) == lastCall.op = "put" /\ save[p].pc = "returned"

ReturnedOk(p) == Returned(p) /\ save[p].status = "ok"

VictimsAreOldest(p) ==
    LET all == save[p].allItems
        del == save[p].itemsToDelete
        victims == {del[k] : k \in 1..Len(del)}
    IN  Len(all) > MAX_HISTORY_ITEMS =>
            /\ Len(del) = Len(all) - MAX_HISTORY_ITEMS
            /\ Cardinality(victims) = Len(del)
            /\ victims \subseteq Ids(all)
            /\ \A v \in Range(all) : v.id \in victims =>
                    \A k \in Range(all) : k.id \notin victims => v.timestamp <= k.timestamp
            /\ ReturnedOk(p) =>
                    /\ store[p] = SelectSeq(all, LAMBDA r : r.id \notin victims)
                    /\ Len(store[p]) = MAX_HISTORY_ITEMS

\* the scripted client has put the timestamps 1 .. ops: the newest MAX of them remain
ScriptKeepsNewest ==
    (client = "script" /\ CallDone("image")) =>
        Timestamps(store["image"]) =
            {t \in 1..ops : t > ops - MAX_HISTORY_ITEMS}

\* C2: when a put leaves n > MAX records, the eviction pass deletes exactly the n - MAX
\* records with the smallest timestamps and keeps the MAX newest; putting the
\* timestamps 1 .. MAX + Extra one after another leaves Extra + 1 .. MAX + Extra.
C2_OldestFirstEviction ==
    /\ VictimsAreOldest("image")
    /\ ScriptKeepsNewest
    /\ (client = "script" /\ ops = MAX_HISTORY_ITEMS + Extra /\ Returned("image")) =>
            Timestamps(store["image"]) = (Extra + 1)..(MAX_HISTORY_ITEMS + Extra)

\* the scripted client is through: its last put has evicted and returned
C2_Witness ==
    /\ client = "script"
    /\ ops = MAX_HISTORY_ITEMS + Extra
    /\ ReturnedOk("image")
    /\ Len(save["image"].itemsToDelete) = 1

\* C3: right after the put transaction of a record whose id was stored, the store has
\* as many records as before, the record under that id is the new one and every other
\* record is as before; a put of a record that was stored as it is leaves the store
\* as it was, also when the call has returned.
C3_UpsertById ==
    LET sv == save["image"]
        s == store["image"]
    IN  /\ (sv.pc = "enforce" /\ HasId(sv.before, sv.item.id)) =>
              /\ Len(s) = Len(sv.before)
              /\ \A i \in 1..Len(s) :
                    s[i] = IF sv.before[i].id = sv.item.id THEN sv.item ELSE sv.before[i]
        /\ (sv.pc = "enforce" /\ sv.item \in Range(sv.before)) => s = sv.before
        /\ (ReturnedOk("image") /\ sv.item \in Range(sv.before)
              /\ Len(sv.before) <= MAX_HISTORY_ITEMS) => s = sv.before

\* a record was put under a stored id with other fields, and the transaction is through
C3_Witness ==
    LET sv == save["image"]
    IN  /\ sv.pc = "enforce"
        /\ HasId(sv.before, sv.item.id)
        /\ sv.item \notin Range(sv.before)
        /\ sv.item \in Range(store["image"])

\* C4: a delete of an id that is not stored, on a medium that accepts the request,
\* returns without an error; with or without a medium failure it leaves the records
\* as they were.
C4_DeleteMissingIsNoOp ==
    (lastCall.op = "delete" /\ lastCall.missing) =>
        /\ lastCall.unchanged
        /\ lastCall.medium => lastCall.result = "ok"

\* a missing id was deleted on a store that holds records
C4_Witness ==
    /\ lastCall.op = "delete"
    /\ lastCall.missing
    /\ lastCall.medium
    /\ lastCall.result = "ok"
    /\ Len(store["image"]) > 0

-----------------------------------------------------------------------------
(* Properties of the controller *)

\* every character of the prompt is white space
WhitespaceOnly(prompt) == \A i \in 1..Len(prompt) : prompt[i] \in {" ", "\t", "\n"}

\* the step is a click on the generate button
IsClick == event'.type = "click"

\* the step is the rejection of the GeminiService call, caught by handleGenerate
IsRejection == event'.type = "rejected"

\* C5: a click on the generate button while the active mode's prompt is empty or
\* white space only leaves loading, error, isRateLimited, the results, the history and
\* the store as they were and dispatches no remote call.
C5_BlankSubmitIsNoOp ==
    [][(IsClick /\ WhitespaceOnly(Draft(mode).prompt)) =>
            UNCHANGED <<uiVars, gen, dispatched, store, save>>]_vars

\* the button was clicked over a prompt of white space, and nothing is in progress
C5_Witness ==
    /\ event.type = "click"
    /\ Draft(mode).prompt # <<>>
    /\ WhitespaceOnly(Draft(mode).prompt)
    /\ ~loading /\ gen.pc = "idle" /\ dispatched = 0

\* C6: a click on the generate button while a request is in progress changes nothing
\* and dispatches nothing, and a remote call is dispatched only when no handleGenerate
\* call is in progress: at most one request is in flight.
C6_SingleInFlight ==
    [][/\ (IsClick /\ loading) => UNCHANGED <<uiVars, gen, dispatched, store, save>>
       /\ (dispatched' # dispatched) =>
            (gen.pc = "idle" /\ ~loading /\ dispatched' = dispatched + 1)]_vars

\* the button was clicked during the remote call of a request, over a prompt that has
\* been edited since the request was dispatched
C6_Witness ==
    /\ event.type = "click"
    /\ gen.pc = "remote"
    /\ dispatched = 1
    /\ ~WhitespaceOnly(Draft(mode).prompt)
    /\ Draft(gen.mode) # gen.config

\* the latest request of mode m has resolved and its artifact is shown as the result,
\* with no notice and nothing in progress
Succeeded(m) ==
    /\ ~loading /\ gen.pc = "idle" /\ error = Null /\ ~isRateLimited
    /\ dispatched > 0
    /\ Result(m) = Some(dispatched)

Recorded(m, url) ==
    /\ \E i \in 1..Len(store[StoreOf(m)]) : Artifact(m, store[StoreOf(m)][i]) = url
    /\ \E i \in 1..Len(History(m)) : Artifact(m, History(m)[i]) = url

\* C7: in every state where the phase is Succeeded for a request, the store and the
\* history hold a record whose artifact reference is the resolved value.
C7_SuccessImpliesRecorded ==
    \A m \in Modes : Succeeded(m) => Recorded(m, dispatched)

\* the message of the error contains one of the rate-limit patterns
HasRateLimitPattern(err) ==
    /\ err.message # Null
    /\ \/ Includes(err.message[1], CODE_429)
       \/ Includes(err.message[1], RESOURCE_EXHAUSTED)
       \/ Includes(err.message[1], QUOTA)

\* the message of the error contains "Requested entity was not found"
HasEntityPattern(err) ==
    err.message # Null /\ Includes(err.message[1], ENTITY_NOT_FOUND)

\* C8: in each mode, a remote failure whose message contains "Requested entity was not
\* found" sets the session-expired error, sets isAuth to false and, outside local
\* mode, calls window.aistudio.openSelectKey().
C8_AuthExpiredClassification ==
    [][(IsRejection /\ HasEntityPattern(event'.err)) =>
            /\ error' = Some(SessionExpiredText)
            /\ ~isAuth'
            /\ ~isLocalMode => gen'.pc = "reauth"]_vars

\* C9 as stated: a remote failure whose message contains "429", "RESOURCE_EXHAUSTED"
\* or "quota" sets isRateLimited and sets no error message, for every such message
\* and in both modes.
C9_RateLimitedForEveryMessage ==
    [][(IsRejection /\ HasRateLimitPattern(event'.err)) =>
            (isRateLimited' /\ error' = Null)]_vars

\* C9 amended: a remote failure whose message contains "429", "RESOURCE_EXHAUSTED" or
\* "quota" and does not contain "Requested entity was not found" sets isRateLimited
\* and sets no error message, in both modes.
C9_RateLimitedClassification ==
    [][(IsRejection /\ HasRateLimitPattern(event'.err) /\ ~HasEntityPattern(event'.err)) =>
            (isRateLimited' /\ error' = Null /\ ~loading')]_vars

\* a video request was rejected with a quota message and the rate-limit notice is up
C9_Witness ==
    /\ event.type = "rejected"
    /\ event.mode = "video"
    /\ event.err = Err(Some(MsgQuota))
    /\ isRateLimited /\ error = Null /\ ~loading

\* the rules in their fixed order
OrderedKind(err) ==
    IF HasEntityPattern(err) THEN "AuthExpired"
    ELSE IF HasRateLimitPattern(err) THEN "RateLimited"
    ELSE "Generic"

\* C10: in both modes a remote failure is classified by the rules in the order
\* AuthExpired, RateLimited, Generic; a Generic failure shows the original message, or
\* the default message of the mode when the error has no message or an empty one.
C10_OrderedClassification ==
    [][IsRejection =>
        LET err == event'.err
            kind == OrderedKind(err)
        IN  /\ kind = "AuthExpired" =>
                 (error' = Some(SessionExpiredText) /\ isRateLimited' = isRateLimited)
            /\ kind = "RateLimited" => (isRateLimited' /\ error' = Null)
            /\ kind = "Generic" =>
                 /\ isRateLimited' = isRateLimited
                 /\ error' = Some(IF err.message = Null \/ err.message = Some(<<>>)
                                  THEN DefaultError(event'.mode)
                                  ELSE err.message[1])]_vars

\* C11: when clearAllHistory of the App completes successfully, getAllHistory of that
\* mode's store returns the empty sequence and the history list of that mode is empty,
\* whatever the store held before.
C11_ClearEmptiesHistory ==
    [][\A m \in Modes :
          (event'.type = "cleared" /\ event'.mode = m) =>
              /\ getAllHistory(StoreOf(m))' = <<>>
              /\ History(m)' = <<>>]_vars

\* a store that held a record has been cleared
C11_Witness ==
    /\ event.type = "cleared"
    /\ event.changed
    /\ store[StoreOf(event.mode)] = <<>>
    /\ History(event.mode) = <<>>

\* C12: the records created by successful generations of a mode have pairwise distinct
\* ids, so the put of a new record never replaces the record of an earlier generation.
C12_UniqueRecordIds ==
    \A m \in Modes :
        \A i, j \in 1..Len(History(m)) :
            i # j => History(m)[i].id # History(m)[j].id

\* the panels on screen
PanelsShown ==
    {p \in {"loading", "error", "rate-limited", "idle"} :
        \/ p = "loading" /\ ShowsLoading
        \/ p = "error" /\ ShowsError
        \/ p = "rate-limited" /\ ShowsRateLimited
        \/ p = "idle" /\ ShowsIdle}

\* C13 as stated: in every reachable state exactly one of the four panels loading,
\* error, rate-limited and idle is shown.
C13_ExactlyOnePanel == Cardinality(PanelsShown) = 1

\* C13 amended: in every reachable state in which the main screen is rendered (isAuth),
\* exactly one of the four panels is shown; while the authorization screen is rendered
\* none of them is.
C13_ExactlyOnePanelWhenAuthorized ==
    /\ isAuth => Cardinality(PanelsShown) = 1
    /\ ~isAuth => PanelsShown = {}

\* an error and the rate-limit flag are both set on the main screen: the rate-limit
\* panel alone is shown
C13_Witness ==
    /\ isAuth /\ ~loading
    /\ error # Null /\ isRateLimited
    /\ PanelsShown = {"rate-limited"}

\* the step is a click on the button of the error notice or of the rate-limit notice
IsDismiss ==
    \/ error # Null /\ error' = Null /\ ~loading /\ ~loading'
    \/ isRateLimited /\ ~isRateLimited'

\* C14: from every reachable state that shows the error or the rate-limit notice, a
\* single dismiss leads to Idle (no error, no rate-limit notice, not loading) and makes
\* no remote call.
C14_DismissReturnsToIdle ==
    [][IsDismiss =>
          /\ error' = Null /\ ~isRateLimited' /\ ~loading'
          /\ dispatched' = dispatched]_vars

\* C15: every accepted submit makes exactly one GeminiService call, and no other step
\* makes one: not the rejection of a call, not the catch block, not the settling of the
\* re-authorization request, not a dismiss.
C15_NoAutomaticRetry ==
    [][/\ (IsClick /\ ~loading /\ loading') => dispatched' = dispatched + 1
       /\ ~IsClick => dispatched' = dispatched
       /\ (IsRejection \/ gen.pc = "reauth" \/ gen.pc = "saving") => dispatched' = dispatched]_vars

\* a request has failed as AuthExpired and the re-authorization has succeeded: the
\* call has not been made again
C15_Witness ==
    /\ ~isLocalMode /\ isAuth
    /\ error = Some(SessionExpiredText)
    /\ gen.pc = "idle" /\ ~loading
    /\ dispatched = 1

\* C16: a request of one mode can be submitted while a request of the other mode is in
\* flight, and the rejection of a request of one mode does not change what the display
\* shows while the other mode is the active one.
C16_ModeIndependence ==
    [][/\ (IsClick /\ ~WhitespaceOnly(Draft(mode).prompt) /\ gen.pc # "idle" /\ gen.mode # mode)
            => dispatched' = dispatched + 1
       /\ (IsRejection /\ event'.mode # mode) => PanelsShown' = PanelsShown]_vars

Other(m) == CHOOSE o \in Modes : o # m

\* the step is an accepted submit
IsSubmit == IsClick /\ ~loading /\ loading'

\* C17: the two branches follow one protocol: a rejection is classified as the branch
\* of the other mode classifies the same error, and on submit the result of the mode is
\* reset if and only if the branch of the other mode resets its result.
C17_IdenticalProtocol ==
    [][/\ IsRejection => Kind(event'.mode, event'.err) = Kind(Other(event'.mode), event'.err)
       /\ IsSubmit =>
            /\ ClearsResultOnSubmit(mode) = ClearsResultOnSubmit(Other(mode))
            /\ Result(mode)' = IF ClearsResultOnSubmit(Other(mode)) THEN Null
                               ELSE Result(mode)]_vars

\* the records of the list before that are still in the list after, by id, are in it
\* with every field as before
KeepsFields(before, after) ==
    \A i \in 1..Len(before) :
        HasId(after, before[i].id) => \E j \in 1..Len(after) : after[j] = before[i]

\* C18: no step changes the config, prompt, artifact reference, id or timestamp of a
\* record that is in the store or in the history list: not an edit of the draft, not
\* the selection of a record, not a further generation.
C18_RecordsAreSnapshots ==
    [][\A m \in Modes :
          /\ KeepsFields(store[StoreOf(m)], store'[StoreOf(m)])
          /\ KeepsFields(History(m), History(m)')]_vars

\* C19: no call of handleGenerate, of the history handlers or of the startup load ends
\* with a rejection that nothing catches.
C19_NoUnhandledFault == event.type # "unhandled"

\* C20: when the delete of an eviction victim fails during the pass that follows the
\* insert, saveHistoryItem still returns without an error, the inserted record stays
\* stored (unless it is a victim itself) and every other victim is deleted.
C20_EvictionFailureTolerated ==
    LET sv == save["image"]
        del == sv.itemsToDelete
        victims == {del[k] : k \in 1..Len(del)}
    IN  (Returned("image") /\ del # <<>>) =>
            /\ sv.status = "ok"
            /\ sv.item.id \notin victims => sv.item \in Range(store["image"])
            /\ \A k \in 1..Len(del) : k # sv.next => ~HasId(store["image"], del[k])

\* q comes before r when the records are ordered newest first and, among records of
\* one timestamp, by id in key order
Precedes(q, r) ==
    \/ q.timestamp > r.timestamp
    \/ q.timestamp = r.timestamp /\ KeyLess(q.id, r.id)

\* C21: the victims of an eviction pass are a function of the set of records it read:
\* they are the n - MAX last records in the order newest first, ties by id (every
\* record kept comes before every victim); so after a put that returned without an
\* error the survivors are the MAX first records of that order, whatever the order of
\* the puts that stored them.
C21_TieBreakById ==
    LET sv == save["image"]
        all == sv.allItems
        del == sv.itemsToDelete
        victims == {del[k] : k \in 1..Len(del)}
        deleted == {r \in Range(all) : r.id \in victims}
        kept == Range(all) \ deleted
    IN  Len(all) > MAX_HISTORY_ITEMS =>
            /\ Cardinality(deleted) = Len(all) - MAX_HISTORY_ITEMS
            /\ \A v \in deleted : \A k \in kept : Precedes(k, v)
            /\ ReturnedOk("image") => Range(store["image"]) = kept

\* an eviction pass has deleted one of two records that share a timestamp and kept
\* the other
C21_Witness ==
    LET sv == save["image"]
        del == sv.itemsToDelete
        victims == {del[k] : k \in 1..Len(del)}
    IN  /\ ReturnedOk("image")
        /\ \E v, k \in Range(sv.allItems) :
              /\ v.id \in victims /\ k.id \notin victims
              /\ v.timestamp = k.timestamp
              /\ k \in Range(store["image"])

\* C22 as stated: in every reachable state the store holds at most MAX + 1 records.
C22_OvershootAtMostOne ==
    \A p \in Modes : Len(store[p]) <= MAX_HISTORY_ITEMS + 1

\* C22 amended: in every reachable state the store holds at most MAX + 1 records plus
\* one for every request to the medium that has failed; MAX + 1 when none has.
C22_OvershootBoundedByFailures ==
    LET failed == IF client = "script" THEN 0 ELSE MaxFaults - faultsLeft
    IN  \A p \in Modes : Len(store[p]) <= MAX_HISTORY_ITEMS + 1 + failed

\* after one failed request of a cleanup pass the next insert has brought the store to
\* MAX + 2 records
C22_Witness ==
    /\ client = "free"
    /\ faultsLeft = MaxFaults - 1
    /\ save["image"].pc = "enforce"
    /\ Len(store["image"]) = MAX_HISTORY_ITEMS + 2

\* the step is the continuation of handleGenerate after a window.aistudio.openSelectKey()
\* call that resolved
IsReauthorized == gen.pc = "reauth" /\ gen'.pc = "idle" /\ event'.type # "unhandled"

\* C23: when the re-authorization requested for an AuthExpired failure succeeds, isAuth
\* becomes true while the request stays failed: the session-expired message is set,
\* loading is false, no remote call is made and no record, result or history entry is
\* written.
C23_ReauthDoesNotRescue ==
    [][IsReauthorized =>
          /\ isAuth'
          /\ error' = Some(SessionExpiredText)
          /\ ~loading'
          /\ dispatched' = dispatched
          /\ UNCHANGED <<store, save, history, videoHistory, resultImage, resultVideo>>]_vars

\* the step is a continuation of handleGenerate: the settling of the remote call, of
\* the store write or of the re-authorization it awaits
IsContinuation == gen.pc # "idle" /\ gen'.pc # gen.pc

\* C24: loading, error and isRateLimited change only in a step that is a submit, a
\* continuation of handleGenerate after the remote call has settled, or a dismiss.
C24_ClosedSetOfTriggers ==
    [][(loading' # loading \/ error' # error \/ isRateLimited' # isRateLimited) =>
            (IsSubmit \/ IsContinuation \/ IsDismiss)]_vars

\* no handleGenerate call and no saveHistoryItem call is in progress
Settled == gen.pc = "idle" /\ \A p \in Modes : save[p].pc = "idle"

\* C25: whenever no submit is in progress, the history list of each mode holds exactly
\* the records that getAllHistory returns for the mode's store: the same ids, no id
\* twice, at most MAX entries.
C25_HistoryMatchesStore ==
    Settled =>
        \A m \in Modes :
            /\ Ids(History(m)) = Ids(getAllHistory(StoreOf(m)))
            /\ Cardinality(Ids(History(m))) = Len(History(m))
            /\ Len(History(m)) <= MAX_HISTORY_ITEMS

PutIsNewest(sv) ==
    \A i \in 1..Len(sv.before) :
        sv.before[i].id # sv.item.id => sv.before[i].timestamp < sv.item.timestamp

IsSaveFailure ==
    /\ gen.pc = "saving" /\ gen'.pc # "saving"
    /\ save[StoreOf(gen.mode)].status = "error"

\* C27: when the remote call has resolved and saveHistoryItem then fails, isRateLimited
\* is not set, isAuth is not cleared and no re-authorization is requested, whatever the
\* message of the storage error.
C27_StorageFailureIsNotRemote ==
    [][IsSaveFailure =>
          /\ isRateLimited' = isRateLimited
          /\ isAuth' = isAuth
          /\ gen'.pc # "reauth"]_vars

\* the step is the continuation of handleGenerate after a saveHistoryItem call that
\* resolved: the request has succeeded
IsSuccess ==
    /\ gen.pc = "saving" /\ gen'.pc = "idle"
    /\ save[StoreOf(gen.mode)].status = "ok"

\* C28: when a request succeeds, the idle panel with the new artifact is what the
\* display shows, whatever notice was up when the request was submitted; and error and
\* isRateLimited are never both set.
C28_SubmitSupersedesNotices ==
    [][/\ ~(error' # Null /\ isRateLimited')
       /\ IsSuccess =>
            /\ ShowsIdle'
            /\ \A m \in Modes : gen.mode = m => Result(m)' = Some(dispatched)]_vars

\* the step is the resolution of the GeminiService call
IsResolve == gen.pc = "remote" /\ gen'.pc = "saving"

\* C29: the call is made in the mode and with the draft of the moment of the submit
\* (gen.mode, gen.config); the record built when it resolves carries that config and
\* its prompt, and that record is the one added to the history of that mode when the
\* save has succeeded, whatever edits of the draft and switches of mode happen while
\* the request is in progress.
C29_RecordMatchesRequest ==
    [][/\ IsSubmit => (gen'.mode = mode /\ gen'.config = Draft(mode))
       /\ IsResolve =>
            /\ gen'.mode = gen.mode /\ gen'.config = gen.config
            /\ save'[StoreOf(gen.mode)].item.config = gen.config
            /\ save'[StoreOf(gen.mode)].item.prompt = gen.config.prompt
       /\ IsSuccess =>
            /\ save[StoreOf(gen.mode)].item.config = gen.config
            /\ \A m \in Modes :
                  gen.mode = m => History(m)' = <<save[StoreOf(m)].item>> \o History(m)
       /\ (gen.pc # "idle" /\ gen'.pc = gen.pc) => gen' = gen]_vars

\* the remote call has resolved after the user edited the prompt and switched mode:
\* the record carries the config of the submit, not the draft
C29_Witness ==
    /\ gen.pc = "saving"
    /\ mode # gen.mode
    /\ Draft(gen.mode) # gen.config
    /\ save[StoreOf(gen.mode)].item.config = gen.config
    /\ save[StoreOf(gen.mode)].item.prompt # Draft(gen.mode).prompt

\* handleGenerate has run to its end at this step
IsFinish == gen.pc # "idle" /\ gen'.pc = "idle"

\* the step that ends handleGenerate leaves an error notice, the rate-limit notice, or
\* the artifact of this request as the result
EndsInAnOutcome ==
    IsFinish =>
        /\ ~loading'
        /\ \A m \in Modes :
             gen.mode = m =>
               \/ error' # Null
               \/ isRateLimited'
               \/ Result(m)' = Some(dispatched)

\* C30: under fair scheduling every request in flight (loading = true) ends: loading
\* becomes false, and the step that ends it leaves a failure notice, the rate-limit
\* notice or the new result; loading is true only while handleGenerate is in progress.
C30_EveryRequestEnds ==
    /\ loading ~> ~loading
    /\ [][(loading' = (gen'.pc # "idle")) /\ EndsInAnOutcome]_vars

\* a request has gone through its remote call, its store call and has ended
C30_Witness ==
    /\ ~loading /\ gen.pc = "idle"
    /\ dispatched > 0
    /\ \E m \in Modes : Result(m) = Some(dispatched) /\ Len(History(m)) > 0


====
